---- MODULE Spec2Model ----
(***************************************************************************)
(* A model of jts_erd (src/jts_erd/jts_erd.py): get_graph turns a schema   *)
(* document (namespaces, tables, columns, keys, foreign keys) into a graph *)
(* of table nodes, junction nodes and edges.                               *)
(*                                                                         *)
(* Conventions of the model                                                *)
(*  - An optional value (a dict key that may be missing, a value that may  *)
(*    be None) is a sequence of length 0 (absent) or 1 (present).          *)
(*  - A graph attribute that was never set reads as the empty string, as   *)
(*    it does in graphviz.                                                 *)
(*  - A label or a tooltip is a string, stripped character by character;   *)
(*    a text that is wrapped or quoted is a sequence of characters.        *)
(*    "<->" stands for the character U+2194.                               *)
(***************************************************************************)
EXTENDS Integers, Sequences, FiniteSets, TLC

VARIABLES
    doc,                \* json_database_schema['datapackages']
    options,            \* the options passed to this call
    opt,                \* the merged options of this call
    pc,                 \* position in get_graph
    present_tables,     \* inventory: (namespace, table name) -> table
    tables_with_edges,  \* identities that are tail or head of a foreign key
    rendered,           \* the tables passed to _graph_add_table (their positions)
    nodes,              \* schema_graph: its nodes, in order of creation
    edges,              \* schema_graph: its edges, in order of creation
    table_edges,        \* the (tail, head) name pairs of the current namespace
    ti,                 \* cursor of the "add table nodes" loop
    ei,                 \* cursor of the "add foreign key edges" loop
    iteration_order,    \* the process: the order in which a set built by given
                        \* insertions is iterated (fixed by the hashes of the run)
    returned            \* the calls that have returned, in order

vars == <<doc, options, opt, pc, present_tables, tables_with_edges, rendered, nodes,
          edges, table_edges, ti, ei, iteration_order, returned>>

-----------------------------------------------------------------------------
(* Bounds of the checked inputs *)

MaxTables == 2
MaxFks == 2
MaxCols == 3
MaxPk == 2
MaxIdx == 2
MaxCalls == 3

NsNames == <<"public", "s2">>
TableNames == {"a", "b"}
ColNames == {"x", "y", "z"}
Cardinalities == {"", "0..1", "1", "0..N", "1..N", "bogus"}

-----------------------------------------------------------------------------
(* Generic helpers *)

None == <<>>
Some(v) == <<v>>
Opt(S) == {None} \cup {Some(v) : v \in S}

\* Python truthiness of an optional string: None and '' are false
Truthy(o) == o # None /\ o[1] # ""

\* '%s' % o
Str(o) == IF o = None THEN "None" ELSE o[1]

Range(s) == {s[i] : i \in 1..Len(s)}

\* list.index: the 0-based position of the first occurrence (x occurs in s)
Index(s, x) == (CHOOSE i \in 1..Len(s) : s[i] = x /\ \A j \in 1..(i-1) : s[j] # x) - 1

RECURSIVE Flat(_)
Flat(ss) == IF ss = <<>> THEN <<>> ELSE Head(ss) \o Flat(Tail(ss))

RECURSIVE Cat(_)
\* the string that a token sequence spells
Cat(toks) ==
    IF toks = <<>> THEN ""
    ELSE IF Len(toks) = 1 THEN toks[1]
    ELSE Cat(SubSeq(toks, 1, Len(toks) \div 2)) \o Cat(SubSeq(toks, Len(toks) \div 2 + 1, Len(toks)))

SeqsUpTo(S, n) == UNION {[1..k -> S] : k \in 0..n}
Perms(s) == {p \in [1..Len(s) -> Range(s)] : Range(p) = Range(s)}

RECURSIVE Join(_)
\* ', '.join(names)
Join(names) ==
    IF names = <<>> THEN <<>>
    ELSE IF Len(names) = 1 THEN <<names[1]>>
    ELSE <<names[1], ",", " ">> \o Join(Tail(names))

-----------------------------------------------------------------------------
(* The schema document *)

ColumnNames(table) == [i \in 1..Len(table.fields) |-> table.fields[i].name]

Identity(ni, table) == <<doc[ni].datapackage, table.name>>

\* the positions <<namespace index, table index>> in document order
TablePositions ==
    Flat([ni \in 1..Len(doc) |->
            [k \in 1..Len(doc[ni].resources) |-> <<ni, k>>]])

TableAt(pos) == doc[pos[1]].resources[pos[2]]

\* the steps of the "add foreign key edges" loop: one per foreign key, and
\* one at the end of every namespace
EdgeOps ==
    Flat([ni \in 1..Len(doc) |->
            Flat([k \in 1..Len(doc[ni].resources) |->
                    [f \in 1..Len(doc[ni].resources[k].foreignKeys) |->
                        [op |-> "fk", ni |-> ni, ti |-> k, fi |-> f]]])
            \o <<[op |-> "end", ni |-> ni, ti |-> 0, fi |-> 0]>>])

AllFks ==
    {o \in Range(EdgeOps) : o.op = "fk"}

FkOf(o) == doc[o.ni].resources[o.ti].foreignKeys[o.fi]

-----------------------------------------------------------------------------
(* _get_port and _get_crowfoot *)

\* the port number, or 0 when list.index raises ValueError
_get_port_no_offset(table, column) ==
    LET hasPk == table.primaryKey # None
        pk == IF hasPk THEN table.primaryKey[1] ELSE <<>>
        columns_non_pk == SelectSeq(ColumnNames(table), LAMBDA c : c \notin Range(pk))
    IN  IF hasPk /\ column \in Range(pk) THEN Index(pk, column) + 1
        ELSE IF column \notin Range(columns_non_pk) THEN 0
        ELSE Index(columns_non_pk, column) + 1

_get_port(table, column) ==
    LET hasPk == table.primaryKey # None
        pk == IF hasPk THEN table.primaryKey[1] ELSE <<>>
        offset == IF hasPk THEN Len(pk) ELSE 0
        columns_non_pk == SelectSeq(ColumnNames(table), LAMBDA c : c \notin Range(pk))
    IN  IF hasPk /\ column \in Range(pk) THEN Index(pk, column) + 1
        ELSE IF column \notin Range(columns_non_pk) THEN 0
        ELSE Index(columns_non_pk, column) + offset + 1

_get_crowfoot_ignore_option(cardinality, o) ==
    IF cardinality = Some("0..1") THEN "teeodot"
    ELSE IF cardinality = Some("1") THEN "teetee"
    ELSE IF cardinality = Some("0..N") THEN "crowodot"
    ELSE IF cardinality = Some("1..N") THEN "crowtee"
    ELSE "none"

_get_crowfoot(cardinality, o) ==
    IF ~o.display_crowfoots THEN "none"
    ELSE IF cardinality = Some("0..1") THEN "teeodot"
    ELSE IF cardinality = Some("1") THEN "teetee"
    ELSE IF cardinality = Some("0..N") THEN "crowodot"
    ELSE IF cardinality = Some("1..N") THEN "crowtee"
    ELSE "none"

-----------------------------------------------------------------------------
(* Text that the code inspects character by character *)

\* A text whose characters matter (a default expression, a description, an
\* index definition, the type given to _format_attribute) is a sequence of
\* characters; Cat spells it as a string.  The characters of the model are
\* those of the code points 1 to 255 without 96, and of 5760: Controls lists
\* the characters of the code points 1 to 8, Shifts those of 14 to 27, Ascii
\* those of 32 to 95, Letters those of 97 to 122, Braces those of 123 to
\* 126, Latin1 those of 127 to 255; the white space is named below.  A
\* character without an escape is written as the character itself.  An
\* operator that reads the code point or the class of a character is not
\* defined on a character outside of CodePoint.
\* The documents of the bounded inputs keep to code points below 128.
Controls == <<
    "", "", "", "", "", "", "", "">>

Shifts == <<
    "", "", "", "", "", "", "", "", "", "", "", "",
    "", "">>

Ascii == <<
    " ", "!", "\"", "#", "$", "%", "&", "'", "(", ")", "*", "+",
    ",", "-", ".", "/", "0", "1", "2", "3", "4", "5", "6", "7",
    "8", "9", ":", ";", "<", "=", ">", "?", "@", "A", "B", "C",
    "D", "E", "F", "G", "H", "I", "J", "K", "L", "M", "N", "O",
    "P", "Q", "R", "S", "T", "U", "V", "W", "X", "Y", "Z", "[",
    "\\", "]", "^", "_">>

Letters == <<
    "a", "b", "c", "d", "e", "f", "g", "h", "i", "j", "k", "l",
    "m", "n", "o", "p", "q", "r", "s", "t", "u", "v", "w", "x",
    "y", "z">>

Braces == <<"{", "|", "}", "~">>

Latin1 == <<
    "", "", "", "", "", "", "", "", "", "", "", "",
    "", "", "", "", "", "", "", "", "", "", "", "",
    "", "", "", "", "", "", "", "", "", " ", "¡", "¢",
    "£", "¤", "¥", "¦", "§", "¨", "©", "ª", "«", "¬", "­", "®",
    "¯", "°", "±", "²", "³", "´", "µ", "¶", "·", "¸", "¹", "º",
    "»", "¼", "½", "¾", "¿", "À", "Á", "Â", "Ã", "Ä", "Å", "Æ",
    "Ç", "È", "É", "Ê", "Ë", "Ì", "Í", "Î", "Ï", "Ð", "Ñ", "Ò",
    "Ó", "Ô", "Õ", "Ö", "×", "Ø", "Ù", "Ú", "Û", "Ü", "Ý", "Þ",
    "ß", "à", "á", "â", "ã", "ä", "å", "æ", "ç", "è", "é", "ê",
    "ë", "ì", "í", "î", "ï", "ð", "ñ", "ò", "ó", "ô", "õ", "ö",
    "÷", "ø", "ù", "ú", "û", "ü", "ý", "þ", "ÿ">>

VT == ""  \* chr(11), vertical tab
FS == ""  \* chr(28), file separator
GS == ""  \* chr(29), group separator
RS == ""  \* chr(30), record separator
US == ""  \* chr(31), unit separator
NEL == ""  \* chr(133), next line
NBSP == " "  \* chr(160), no-break space
OGHAM == " "  \* chr(5760), ogham space mark

\* the characters of a string
Chars(str) == [i \in 1..Len(str) |-> SubSeq(str, i, i)]

\* the code point of every character of the texts
CodePoint ==
    ("\t" :> 9) @@ ("\n" :> 10) @@ (VT :> 11) @@ ("\f" :> 12) @@ ("\r" :> 13)
    @@ (FS :> 28) @@ (GS :> 29) @@ (RS :> 30) @@ (US :> 31) @@ (OGHAM :> 5760)
    @@ [c \in Range(Controls) |-> CHOOSE i \in 1..Len(Controls) : Controls[i] = c]
    @@ [c \in Range(Shifts) |-> 13 + (CHOOSE i \in 1..Len(Shifts) : Shifts[i] = c)]
    @@ [c \in Range(Ascii) |-> 31 + (CHOOSE i \in 1..Len(Ascii) : Ascii[i] = c)]
    @@ [c \in Range(Letters) |-> 96 + (CHOOSE i \in 1..Len(Letters) : Letters[i] = c)]
    @@ [c \in Range(Braces) |-> 122 + (CHOOSE i \in 1..Len(Braces) : Braces[i] = c)]
    @@ [c \in Range(Latin1) |-> 126 + (CHOOSE i \in 1..Len(Latin1) : Latin1[i] = c)]

\* the concatenation of the texts of ss, half by half
RECURSIVE Concat(_)
Concat(ss) ==
    IF ss = <<>> THEN <<>>
    ELSE IF Len(ss) = 1 THEN ss[1]
    ELSE Concat(SubSeq(ss, 1, Len(ss) \div 2))
         \o Concat(SubSeq(ss, Len(ss) \div 2 + 1, Len(ss)))

\* ord(c)
Ord(c) == CodePoint[c]

\* str.lower: the capital letters of ASCII and of Latin-1 have their small
\* letter 32 code points on
Lower(text) ==
    [i \in 1..Len(text) |->
        IF Ord(text[i]) \in 65..90 THEN Letters[Ord(text[i]) - 64]
        ELSE IF Ord(text[i]) \in (192..214) \cup (216..222)
             THEN Latin1[Ord(text[i]) + 32 - 126]
        ELSE text[i]]

\* str.isspace of a character
isspace(c) == Ord(c) \in (9..13) \cup (28..32) \cup {133, 160, 5760}

\* the white space characters: those that str.strip removes from the ends
\* of a str.  The other white space of Unicode (U+2000 to U+200A, U+2028,
\* U+2029, U+202F, U+205F, U+3000) cannot be written in a string.
WhiteSpace == {c \in DOMAIN CodePoint : isspace(c)}

\* str.lstrip: the str from its first character that is no white space on
LStrip(str) ==
    LET kept == {i \in 1..Len(str) : ~isspace(SubSeq(str, i, i))}
    IN  IF kept = {} THEN ""
        ELSE SubSeq(str, CHOOSE i \in kept : \A j \in kept : i <= j, Len(str))

\* str.rstrip: the str up to its last character that is no white space
RStrip(str) ==
    LET kept == {i \in 1..Len(str) : ~isspace(SubSeq(str, i, i))}
    IN  IF kept = {} THEN ""
        ELSE SubSeq(str, 1, CHOOSE i \in kept : \A j \in kept : j <= i)

\* str.strip
Strip(str) == RStrip(LStrip(str))

\* str.startswith
StartsWith(text, prefix) ==
    Len(text) >= Len(prefix) /\ SubSeq(text, 1, Len(prefix)) = prefix

\* a < b for two str: at the first place where they differ the smaller code
\* point decides, and a proper prefix is smaller
RECURSIVE StrLess(_, _)
StrLess(a, b) ==
    IF b = <<>> THEN FALSE
    ELSE IF a = <<>> THEN TRUE
    ELSE IF Head(a) # Head(b) THEN Ord(Head(a)) < Ord(Head(b))
    ELSE StrLess(Tail(a), Tail(b))

\* sorted(texts)
RECURSIVE Sorted(_)
Sorted(texts) ==
    IF texts = <<>> THEN <<>>
    ELSE LET m == CHOOSE i \in 1..Len(texts) :
                    \A j \in 1..Len(texts) : ~StrLess(texts[j], texts[i])
         IN  <<texts[m]>>
             \o Sorted(SubSeq(texts, 1, m - 1) \o SubSeq(texts, m + 1, Len(texts)))

\* sep.join(strs), for strings
RECURSIVE JoinStr(_, _)
JoinStr(sep, strs) ==
    IF strs = <<>> THEN ""
    ELSE IF Len(strs) = 1 THEN strs[1]
    ELSE strs[1] \o sep \o JoinStr(sep, Tail(strs))

\* sep.join(texts), for texts of characters
RECURSIVE JoinChars(_, _)
JoinChars(sep, texts) ==
    IF texts = <<>> THEN <<>>
    ELSE IF Len(texts) = 1 THEN texts[1]
    ELSE texts[1] \o sep \o JoinChars(sep, Tail(texts))

\* text.replace(c, by) for a character c
Replace(text, c, by) ==
    Concat([i \in 1..Len(text) |-> IF text[i] = c THEN by ELSE <<text[i]>>])

\* str(n) of a natural number, as characters
RECURSIVE StrChars(_)
StrChars(n) ==
    IF n < 10 THEN <<Ascii[n + 17]>> ELSE Append(StrChars(n \div 10), Ascii[(n % 10) + 17])

-----------------------------------------------------------------------------
(* repr of a str, and str of a list of str *)

\* str.isprintable of a character
isprintable(c) == Ord(c) \in (32..126) \cup (161..172) \cup (174..255)

HexDigits == <<"0", "1", "2", "3", "4", "5", "6", "7", "8", "9",
               "a", "b", "c", "d", "e", "f">>

\* n in hexadecimal, in width digits
RECURSIVE Hex(_, _)
Hex(n, width) ==
    IF width = 0 THEN "" ELSE Hex(n \div 16, width - 1) \o HexDigits[(n % 16) + 1]

\* repr(s): in double quotes when s holds an apostrophe and no double quote,
\* in apostrophes otherwise; the backslash and the quote in use are escaped,
\* tab, line feed and carriage return are written \t, \n and \r, and every
\* other character that does not print is written by its code point, \xNN
\* below 256 and \uNNNN from there
ReprQuote(text) ==
    IF "'" \in Range(text) /\ "\"" \notin Range(text) THEN "\"" ELSE "'"

ReprChar(c, quote) ==
    CASE c = "\\" -> "\\\\"
      [] c = quote -> "\\" \o quote
      [] c = "\t" -> "\\t"
      [] c = "\n" -> "\\n"
      [] c = "\r" -> "\\r"
      [] OTHER -> IF isprintable(c) THEN c
                  ELSE IF Ord(c) < 256 THEN "\\x" \o Hex(Ord(c), 2)
                  ELSE "\\u" \o Hex(Ord(c), 4)

Repr(text) ==
    ReprQuote(text)
    \o Cat([i \in 1..Len(text) |-> ReprChar(text[i], ReprQuote(text))])
    \o ReprQuote(text)

\* repr of a name: a name is a string, repr reads its characters
ReprName(name) == Repr(Chars(name))

RECURSIVE Quoted(_)
Quoted(names) ==
    IF names = <<>> THEN ""
    ELSE IF Len(names) = 1 THEN ReprName(names[1])
    ELSE ReprName(names[1]) \o ", " \o Quoted(Tail(names))

\* str(list of names)
StrList(names) == "[" \o Quoted(names) \o "]"

-----------------------------------------------------------------------------
(* textwrap.wrap(text, width=50) *)

wrap_width == 50

tabsize == 8

Spaces(n) == [i \in 1..n |-> " "]

\* str.expandtabs: a tab fills up to the next tab stop, a line feed or a
\* carriage return starts the columns again; the column of place i is counted
\* from the last tab, line feed or carriage return before it
ExpandTabs(text) ==
    LET Resets(i) == {j \in 1..(i - 1) : text[j] \in {"\t", "\n", "\r"}}
        LastReset(i) ==
            IF Resets(i) = {} THEN 0
            ELSE CHOOSE j \in Resets(i) : \A k \in Resets(i) : k <= j
        column(i) == (i - LastReset(i) - 1) % tabsize
    IN  Concat([i \in 1..Len(text) |->
                IF text[i] = "\t" THEN Spaces(tabsize - column(i)) ELSE <<text[i]>>])

\* textwrap._whitespace: the white space that textwrap knows, which is less
\* than str.strip removes
textwrap_whitespace == {"\t", "\n", VT, "\f", "\r", " "}

\* TextWrapper._munge_whitespace: tabs are expanded, then every character of
\* textwrap._whitespace becomes a space
MungeWhitespace(text) ==
    LET expanded == ExpandTabs(text)
    IN  [i \in 1..Len(expanded) |->
            IF expanded[i] \in textwrap_whitespace THEN " " ELSE expanded[i]]

\* the character classes of TextWrapper.wordsep_re
IsDigit(c) == Ord(c) \in 48..57
IsLetter(c) ==
    Ord(c) \in (65..90) \cup {95} \cup (97..122) \cup {170, 178, 179, 181, 185, 186}
               \cup (188..190) \cup (192..214) \cup (216..246) \cup (248..255)
IsWordChar(c) == IsLetter(c) \/ IsDigit(c)
IsWordPunct(c) == IsWordChar(c) \/ c \in {"!", "\"", "'", "&", ".", ",", "?"}

LetterAt(t, i) == i >= 1 /\ i <= Len(t) /\ IsLetter(t[i])
HyphenAt(t, i) == i >= 1 /\ i <= Len(t) /\ t[i] = "-"

\* the length of the run of character c that starts at i
RunLen(t, i, c) ==
    CHOOSE n \in 0..(Len(t) - i + 1) :
        /\ \A k \in 0..(n - 1) : t[i + k] = c
        /\ i + n > Len(t) \/ t[i + n] # c

\* -{2,} followed by a word character, at i
EmDashAt(t, i) ==
    LET n == RunLen(t, i, "-")
    IN  n >= 2 /\ i + n <= Len(t) /\ IsWordChar(t[i + n])

\* a hyphen at e that splits a hyphenated word: letters on both sides
HyphenBreakAt(t, e) ==
    /\ HyphenAt(t, e)
    /\ \/ LetterAt(t, e - 2) /\ LetterAt(t, e - 1)
       \/ LetterAt(t, e - 3) /\ HyphenAt(t, e - 2) /\ LetterAt(t, e - 1)
    /\ LetterAt(t, e + 1)
    /\ LetterAt(t, e + 2) \/ (HyphenAt(t, e + 2) /\ LetterAt(t, e + 3))

\* the last place of the chunk that wordsep_re matches from place s on: a run
\* of spaces, an em-dash between words, or a word up to a splitting hyphen,
\* to its end or to an em-dash
ChunkEnd(t, s) ==
    IF t[s] = " " THEN s + RunLen(t, s, " ") - 1
    ELSE IF s > 1 /\ IsWordPunct(t[s - 1]) /\ EmDashAt(t, s)
    THEN s + RunLen(t, s, "-") - 1
    ELSE LET Stops(e) ==
                \/ HyphenBreakAt(t, e)
                \/ e > Len(t)
                \/ t[e] = " "
                \/ IsWordPunct(t[e - 1]) /\ EmDashAt(t, e)
             e == CHOOSE e \in (s + 1)..(Len(t) + 1) :
                    Stops(e) /\ \A f \in (s + 1)..(e - 1) : ~Stops(f)
         IN  IF HyphenBreakAt(t, e) THEN e ELSE e - 1

\* TextWrapper._split: the chunks of the text from place s on
RECURSIVE SplitChunks(_, _)
SplitChunks(t, s) ==
    IF s > Len(t) THEN <<>>
    ELSE <<SubSeq(t, s, ChunkEnd(t, s))>> \o SplitChunks(t, ChunkEnd(t, s) + 1)

\* chunk.strip() == '': str.strip removes all white space
IsBlank(chunk) == \A i \in 1..Len(chunk) : isspace(chunk[i])

\* how many of the first chunks fit into width
Fitting(chunks, width) ==
    CHOOSE n \in 0..Len(chunks) :
        /\ Len(Concat(SubSeq(chunks, 1, n))) <= width
        /\ n < Len(chunks) => Len(Concat(SubSeq(chunks, 1, n + 1))) > width

\* TextWrapper._handle_long_word: where a chunk longer than a line is cut
\* when space_left characters are free: after the last hyphen within them
\* that has something else than hyphens before it, else after space_left
LongWordEnd(chunk, space_left) ==
    LET hyphens == {p \in 1..space_left : chunk[p] = "-"}
        h == IF hyphens = {} THEN 0 ELSE CHOOSE p \in hyphens : \A q \in hyphens : q <= p
    IN  IF h >= 2 /\ \E q \in 1..(h - 1) : chunk[q] # "-" THEN h ELSE space_left

\* TextWrapper._wrap_chunks: the lines, given whether a line is out already
RECURSIVE WrapChunks(_, _, _)
WrapChunks(chunks, has_lines, width) ==
    IF chunks = <<>> THEN <<>>
    ELSE
        LET left == IF IsBlank(chunks[1]) /\ has_lines THEN Tail(chunks) ELSE chunks
            n == Fitting(left, width)
            fit == SubSeq(left, 1, n)
            rest == SubSeq(left, n + 1, Len(left))
            cur_len == Len(Concat(fit))
            long == rest # <<>> /\ Len(rest[1]) > width
            end == IF long THEN LongWordEnd(rest[1], width - cur_len) ELSE 0
            cur_line == IF long THEN Append(fit, SubSeq(rest[1], 1, end)) ELSE fit
            later == IF long
                     THEN <<SubSeq(rest[1], end + 1, Len(rest[1]))>> \o Tail(rest)
                     ELSE rest
            kept == IF cur_line # <<>> /\ IsBlank(cur_line[Len(cur_line)])
                    THEN SubSeq(cur_line, 1, Len(cur_line) - 1)
                    ELSE cur_line
        IN  (IF kept # <<>> THEN <<Concat(kept)>> ELSE <<>>)
            \o WrapChunks(later, has_lines \/ kept # <<>>, width)

\* textwrap.wrap(text, width): the lines of the text
Wrap(text, width) == WrapChunks(SplitChunks(MungeWhitespace(text), 1), FALSE, width)

-----------------------------------------------------------------------------
(* _format_attribute and _get_column_display *)

nextval == <<"n", "e", "x", "t", "v", "a", "l", "(">>

\* the value of a default is None or a text of characters; the other values
\* are strings, and the value of 'null' is the boolean of 'required'
_format_attribute(attribute_type, attribute_value) ==
    CASE Cat(Lower(Chars(attribute_type))) = "null" ->
            IF attribute_value THEN "" ELSE "<s>NULL</s>"
      [] Cat(Lower(Chars(attribute_type))) = "name" ->
            "<b>" \o attribute_value \o "</b>"
      [] attribute_type = "default" ->
            IF attribute_value # None
            THEN IF StartsWith(Lower(attribute_value[1]), nextval)
                 THEN "[sequence]"
                 ELSE Cat(attribute_value[1])
            ELSE ""
      [] OTHER -> attribute_value

\* a dict is true when it has an entry
ConstraintsTruthy(column) ==
    /\ column.constraints # None
    /\ column.constraints[1].required # None \/ column.constraints[1].unique # None

\* the entries of the unique constraints of the table that name the column
TableUniques(table, column) ==
    IF table.unique = None THEN <<>>
    ELSE LET tu == table.unique[1]
             hits == SelectSeq([k \in 1..Len(tu) |-> k],
                               LAMBDA k : column.name \in Range(tu[k].fields))
         IN  [h \in 1..Len(hits) |->
                IF Len(tu[hits[h]].fields) = 1 THEN "UNIQ"
                ELSE "UNIQ" \o ToString(hits[h]) \o ":"
                     \o ToString(Index(tu[hits[h]].fields, column.name) + 1)]

Uniques(table, column) ==
    LET uniques == TableUniques(table, column)
    IN  IF /\ ConstraintsTruthy(column)
           /\ "UNIQ" \notin Range(uniques)
           /\ column.constraints[1].unique = Some(TRUE)
        THEN Append(uniques, "UNIQ")
        ELSE uniques

\* the nullability entry of vals, when there is one
NullMarker(column) ==
    IF ConstraintsTruthy(column) /\ column.constraints[1].required # None
    THEN <<_format_attribute("null", column.constraints[1].required[1])>>
    ELSE <<>>

DefaultText(column) ==
    IF column.default_value # None
    THEN "DEFAULT=" \o Cat(column.default_value[1])
    ELSE ""

\* column.get('description', ''): a string, line feeds and all
DescriptionText(column) ==
    IF column.description # None THEN column.description[1] ELSE ""

\* vals of the 'combined' entry, before the empty ones are dropped
CombinedVals(table, column) ==
    NullMarker(column)
    \o <<JoinStr("; ", Uniques(table, column)), DefaultText(column),
         DescriptionText(column)>>

\* '; '.join([v for v in vals if v]).replace('\n', '; '), then the lines of
\* textwrap.wrap joined by '<BR/>\n'
CombinedText(vals) ==
    LET text == Replace(Chars(JoinStr("; ", SelectSeq(vals, LAMBDA v : v # ""))),
                        "\n", <<";", " ">>)
    IN  Cat(JoinChars(Chars("<BR/>\n"), Wrap(text, wrap_width)))

Combined(table, column) == CombinedText(CombinedVals(table, column))

\* display is ['name', 'type', 'combined']
_get_column_display(table, column) ==
    <<column.name, column.type, Combined(table, column)>>

-----------------------------------------------------------------------------
(* The graph (pygraphviz.AGraph, strict=False) *)

NodeNames(ns) == {ns[i].name : i \in 1..Len(ns)}

\* AGraph.add_node: a node is known by its name; adding a name again sets the
\* given attributes on the node that is already there
AddNode(ns, n) ==
    IF n.name \in NodeNames(ns)
    THEN [i \in 1..Len(ns) |-> IF ns[i].name = n.name THEN n ELSE ns[i]]
    ELSE Append(ns, n)

BareNode(name) ==
    [name |-> name, id |-> "", shape |-> "", title |-> "", rows |-> <<>>]

\* AGraph.add_edge: the end nodes are created when missing; in a graph that
\* is not strict every call adds a new edge
EnsureNode(ns, name) == IF name \in NodeNames(ns) THEN ns ELSE Append(ns, BareNode(name))

AddEdge(g, e) ==
    [nodes |-> EnsureNode(EnsureNode(g.nodes, e.tail), e.head),
     edges |-> Append(g.edges, e)]

NoAttrs ==
    [tailport |-> "", headport |-> "", label |-> "", tooltip |-> "",
     arrowtail |-> "", arrowhead |-> "", color |-> "", dir |-> ""]

Edge(tail, head, attrs) ==
    [tail |-> tail, head |-> head,
     tailport |-> attrs.tailport, headport |-> attrs.headport,
     label |-> attrs.label, tooltip |-> attrs.tooltip,
     arrowtail |-> attrs.arrowtail, arrowhead |-> attrs.arrowhead,
     color |-> attrs.color, dir |-> attrs.dir]

-----------------------------------------------------------------------------
(* _graph_add_table *)

default_namespace_name == "public"

\* _get_table_row_html: the first cell carries PORT "i<port>", the last one
\* PORT "f<port>"
\* and every cell holds its formatted attribute; name is the column's name
_get_table_row_html(port, table_cols, highlight) ==
    [kind |-> "column",
     iport |-> "i" \o ToString(port), fport |-> "f" \o ToString(port),
     name |-> table_cols[1], highlight |-> highlight,
     cells |-> <<_format_attribute("name", table_cols[1]),
                 _format_attribute("type", table_cols[2]),
                 _format_attribute("combined", table_cols[3])>>]

\* the first field of the table that has the name
ColumnNamed(table, col_name) == table.fields[Index(ColumnNames(table), col_name) + 1]

\* the lookup of a primary key column among the fields raises IndexError
TableRowsFail(o, table) ==
    /\ o.display_columns
    /\ table.primaryKey # None
    /\ \E c \in Range(table.primaryKey[1]) : c \notin Range(ColumnNames(table))

TableRows_no_offset(o, table) ==
    IF ~o.display_columns THEN <<>>
    ELSE
        LET pk == IF table.primaryKey # None THEN table.primaryKey[1] ELSE <<>>
            columns == SelectSeq(table.fields, LAMBDA c : c.name \notin Range(pk))
        IN  [i \in 1..Len(pk) |->
                _get_table_row_html(
                    i, _get_column_display(table, ColumnNamed(table, pk[i])), TRUE)]
            \o [col_i \in 1..Len(columns) |->
                    _get_table_row_html(
                        col_i, _get_column_display(table, columns[col_i]), FALSE)]

\* the column rows of the table's label, after the title row
TableRows(o, table) ==
    IF ~o.display_columns THEN <<>>
    ELSE
        LET pk == IF table.primaryKey # None THEN table.primaryKey[1] ELSE <<>>
            columns == SelectSeq(table.fields, LAMBDA c : c.name \notin Range(pk))
        IN  [i \in 1..Len(pk) |->
                _get_table_row_html(
                    i, _get_column_display(table, ColumnNamed(table, pk[i])), TRUE)]
            \o [col_i \in 1..Len(columns) |->
                    _get_table_row_html(
                        col_i + Len(pk), _get_column_display(table, columns[col_i]),
                        FALSE)]

\* '<FONT POINT-SIZE="%s">%s</FONT>' % (opt['fontsize'], index['definition'])
FontWrapped(o, definition) ==
    <<"<", "F", "O", "N", "T", " ", "P", "O", "I", "N", "T", "-", "S", "I", "Z", "E", "=", "\"">>
    \o StrChars(o.fontsize) \o <<"\"", ">">> \o definition
    \o <<"<", "/", "F", "O", "N", "T", ">">>

\* the indexes that the "Extra indexes" row lists: not i.get('unique')
ExtraIndexes(table) ==
    SelectSeq(table.indexes[1], LAMBDA i : i.unique = None \/ i.unique = Some(FALSE))

\* the "Extra indexes" row, if any: its definitions are joined with <BR/>
IndexRows(o, table) ==
    IF o.display_indexes /\ table.indexes # None /\ ExtraIndexes(table) # <<>>
    THEN LET indexes == ExtraIndexes(table)
             index_definitions ==
                [k \in 1..Len(indexes) |-> FontWrapped(o, indexes[k].definition)]
             sorted == Sorted(index_definitions)
         IN  <<[kind |-> "indexes",
                definitions |-> [k \in 1..Len(sorted) |-> Cat(sorted[k])]]>>
    ELSE <<>>

TableTitle(namespace_name, table) ==
    (IF namespace_name # default_namespace_name THEN namespace_name \o "." ELSE "")
    \o table.name

_graph_add_table(o, ns, namespace_name, table) ==
    AddNode(ns, [name |-> table.name, id |-> table.name, shape |-> "plaintext",
                 title |-> TableTitle(namespace_name, table),
                 rows |-> TableRows(o, table) \o IndexRows(o, table)])

-----------------------------------------------------------------------------
(* _add_foreign_key_edge *)

TailAgg_no_columns(tail_table_name, head_table_name, tail_column_names) ==
    "tail agg " \o tail_table_name \o "->" \o head_table_name

TailAgg(tail_table_name, head_table_name, tail_column_names) ==
    "tail agg " \o tail_table_name \o StrList(tail_column_names)
    \o "->" \o head_table_name

HeadAgg(tail_table_name, head_table_name, tail_column_names) ==
    "head agg " \o tail_table_name \o "->" \o head_table_name
    \o StrList(tail_column_names)

JunctionNode(name, id) ==
    [name |-> name, id |-> id, shape |-> "point", title |-> "", rows |-> <<>>]

RECURSIVE AddEdges(_, _)
AddEdges(g, es) == IF es = <<>> THEN g ELSE AddEdges(AddEdge(g, Head(es)), Tail(es))

\* the place of the first of the columns for which _get_port raises
\* ValueError, 0 when there is none
FirstMissing(table, column_names) ==
    LET missing == {k \in 1..Len(column_names) : _get_port(table, column_names[k]) = 0}
    IN  IF missing = {} THEN 0 ELSE CHOOSE k \in missing : \A j \in missing : k <= j

\* how many connector edges of a junction are added: those of the columns
\* before the first one that raises
Connected(table, column_names) ==
    IF FirstMissing(table, column_names) = 0 THEN Len(column_names)
    ELSE FirstMissing(table, column_names) - 1

\* one side of the key raises: column_names[0] raises IndexError on an empty
\* list, list.index in _get_port raises ValueError
SideRaises(table, column_names) ==
    column_names = <<>> \/ FirstMissing(table, column_names) # 0

FinalEdgeAttrs_swapped(tail_port, head_port, label, tooltip, o, color, card_tail, card_head) ==
    [tailport |-> tail_port, headport |-> head_port, label |-> label,
     tooltip |-> tooltip,
     arrowtail |-> _get_crowfoot(card_head, o),
     arrowhead |-> _get_crowfoot(card_tail, o),
     color |-> color, dir |-> "both"]

FinalEdgeAttrs(tail_port, head_port, label, tooltip, o, color, card_tail, card_head) ==
    [tailport |-> tail_port, headport |-> head_port, label |-> label,
     tooltip |-> tooltip,
     arrowtail |-> _get_crowfoot(card_tail, o),
     arrowhead |-> _get_crowfoot(card_head, o),
     color |-> color, dir |-> "both"]

\* the graph after the call and whether the call raised: what was added
\* before the exception stays in the graph
_add_foreign_key_edge(g, tail_table_name, head_table_name, tail_table, head_table, tail_column_names, head_column_names, label, tooltip, o, color, card_tail, card_head) ==
    LET port_l == IF o.rankdir = "RL" THEN "f" ELSE "i"
        port_r == IF o.rankdir = "RL" THEN "i" ELSE "f"
        tail_agg == TailAgg(tail_table_name, head_table_name, tail_column_names)
        head_agg == HeadAgg(tail_table_name, head_table_name, tail_column_names)
        tailMany == Len(tail_column_names) > 1
        headMany == Len(head_column_names) > 1
        g1 == IF tailMany
              THEN AddEdges(
                     [nodes |-> AddNode(g.nodes, JunctionNode(tail_agg, tail_table_name)),
                      edges |-> g.edges],
                     [k \in 1..Connected(tail_table, tail_column_names) |->
                        Edge(tail_table_name, tail_agg,
                             [NoAttrs EXCEPT
                                !.tailport = port_r \o ToString(
                                    _get_port(tail_table, tail_column_names[k])),
                                !.color = color, !.dir = "none"])])
              ELSE g
        tail_raised == SideRaises(tail_table, tail_column_names)
        tail_node == IF tailMany THEN tail_agg ELSE tail_table_name
        tail_port == IF tailMany THEN ""
                     ELSE port_r \o ToString(_get_port(tail_table, tail_column_names[1]))
        g2 == IF ~tail_raised /\ headMany
              THEN AddEdges(
                     [nodes |-> AddNode(g1.nodes, JunctionNode(head_agg, head_table_name)),
                      edges |-> g1.edges],
                     [k \in 1..Connected(head_table, head_column_names) |->
                        Edge(head_agg, head_table_name,
                             [NoAttrs EXCEPT
                                !.headport = port_l \o ToString(
                                    _get_port(head_table, head_column_names[k])),
                                !.color = color, !.dir = "none"])])
              ELSE g1
        head_raised == ~tail_raised /\ SideRaises(head_table, head_column_names)
        head_node == IF headMany THEN head_agg ELSE head_table_name
        head_port == IF headMany THEN ""
                     ELSE port_l \o ToString(_get_port(head_table, head_column_names[1]))
        g3 == AddEdge(g2, Edge(tail_node, head_node,
                               FinalEdgeAttrs(tail_port, head_port, label, tooltip, o,
                                              color, card_tail, card_head)))
    IN  IF tail_raised \/ head_raised
        THEN [nodes |-> g2.nodes, edges |-> g2.edges, raised |-> TRUE]
        ELSE [nodes |-> g3.nodes, edges |-> g3.edges, raised |-> FALSE]

-----------------------------------------------------------------------------
(* get_graph: the text of a foreign key's final edge *)

Arrow == "<->"

\* isinstance(value, str): a str is written between quotes, a list is not
IsStr(value) == ToString(SubSeq(value, 1, 0)) = ToString("")

\* tail_column_names: a foreign key whose fields is one str names that column
TailColumnNames(foreign_key) ==
    IF IsStr(foreign_key.fields) THEN <<foreign_key.fields>> ELSE foreign_key.fields

\* head_column_names is reference['fields'] as it is: of a str, len, [0],
\* iteration and join read the characters
HeadColumnNames(reference) ==
    IF IsStr(reference.fields) THEN Chars(reference.fields) ELSE reference.fields

CardinalityLabel_ignore_rankdir(o, reference) ==
    LET card_self == reference.cardinalitySelf
        card_ref == reference.cardinalityRef
    IN  IF Truthy(card_self) \/ Truthy(card_ref)
        THEN <<Str(card_self), " ", Arrow, " ", Str(card_ref)>>
        ELSE <<>>

CardinalityLabel_always(o, reference) ==
    LET card_self == reference.cardinalitySelf
        card_ref == reference.cardinalityRef
    IN  IF o.rankdir = "RL"
        THEN <<Str(card_ref), " ", Arrow, " ", Str(card_self)>>
        ELSE <<Str(card_self), " ", Arrow, " ", Str(card_ref)>>

\* label, before the relationship's label or name is added
CardinalityLabel(o, reference) ==
    LET card_self == reference.cardinalitySelf
        card_ref == reference.cardinalityRef
    IN  IF Truthy(card_self) \/ Truthy(card_ref)
        THEN IF o.rankdir = "RL"
             THEN <<Str(card_ref), " ", Arrow, " ", Str(card_self)>>
             ELSE <<Str(card_self), " ", Arrow, " ", Str(card_ref)>>
        ELSE <<>>

SideText(table_name, column_names) ==
    <<table_name, "(">> \o Join(column_names) \o <<")">>

\* tooltip, before the relationship's label or name is added
TooltipBase(o, reference, tail_table_name, tail_column_names) ==
    CardinalityLabel(o, reference) \o <<"     ">>
    \o (IF o.rankdir = "RL"
        THEN SideText(reference.resource, HeadColumnNames(reference))
             \o <<" ", Arrow, " ">>
             \o SideText(tail_table_name, tail_column_names)
        ELSE SideText(tail_table_name, tail_column_names)
             \o <<" ", Arrow, " ">>
             \o SideText(reference.resource, HeadColumnNames(reference)))

\* the reference's label, or else its name, each after its separator
RelationText(reference, label_sep, name_sep) ==
    IF Truthy(reference.label) THEN <<label_sep, reference.label[1]>>
    ELSE IF Truthy(reference.name) THEN <<name_sep, reference.name[1]>>
    ELSE <<>>

EdgeLabel(o, reference) ==
    Strip(Cat(CardinalityLabel(o, reference) \o RelationText(reference, "\n", "   ")))

EdgeTooltip(o, reference, tail_table_name, tail_column_names) ==
    Strip(Cat(TooltipBase(o, reference, tail_table_name, tail_column_names)
              \o RelationText(reference, "     ", "     ")))

EdgeColor(foreign_key) ==
    IF foreign_key.enforced = None \/ foreign_key.enforced[1] THEN "black" ELSE "blue"

-----------------------------------------------------------------------------
(* get_graph *)

\* set.add on a set kept as a sequence without repetitions
SetAdd_as_list(s, x) == Append(s, x)

SetAdd(s, x) == IF x \in Range(s) THEN s ELSE Append(s, x)

Identities == {Identity(p[1], TableAt(p)) : p \in Range(TablePositions)}

\* a later table of the same identity replaces the earlier one
InventoryOf(id) ==
    LET ps == SelectSeq(TablePositions, LAMBDA p : Identity(p[1], TableAt(p)) = id)
    IN  TableAt(ps[Len(ps)])

RefIdentity(reference) == <<reference.datapackage, reference.resource>>

TablesWithEdges ==
    UNION {{Identity(o.ni, doc[o.ni].resources[o.ti]), RefIdentity(FkOf(o).reference)} :
            o \in AllFks}

Inventory ==
    /\ pc = "inventory"
    /\ present_tables' = [id \in Identities |-> InventoryOf(id)]
    /\ tables_with_edges' = TablesWithEdges
    /\ pc' = IF TablePositions = <<>> THEN "edges" ELSE "tables"
    /\ UNCHANGED <<doc, options, opt, rendered, nodes, edges, table_edges, ti, ei,
                   iteration_order, returned>>

KeepTable_always(o, has_edge) == TRUE

\* whether the table gets a node
KeepTable(o, has_edge) == ~o.omit_isolated_tables \/ has_edge

AddTableNode ==
    /\ pc = "tables"
    /\ ti <= Len(TablePositions)
    /\ LET pos == TablePositions[ti]
           namespace_name == doc[pos[1]].datapackage
           table == TableAt(pos)
           has_edge == <<namespace_name, table.name>> \in tables_with_edges
       IN  IF KeepTable(opt, has_edge)
           THEN IF TableRowsFail(opt, table)
                THEN /\ pc' = "error"
                     /\ UNCHANGED <<nodes, rendered, ti>>
                ELSE /\ nodes' = _graph_add_table(opt, nodes, namespace_name, table)
                     /\ rendered' = Append(rendered, pos)
                     /\ ti' = ti + 1
                     /\ pc' = IF ti' > Len(TablePositions) THEN "edges" ELSE "tables"
           ELSE /\ ti' = ti + 1
                /\ pc' = IF ti' > Len(TablePositions) THEN "edges" ELSE "tables"
                /\ UNCHANGED <<nodes, rendered>>
    /\ UNCHANGED <<doc, options, opt, present_tables, tables_with_edges, edges,
                   table_edges, ei, iteration_order, returned>>

AddForeignKey ==
    /\ pc = "edges"
    /\ ei <= Len(EdgeOps)
    /\ EdgeOps[ei].op = "fk"
    /\ LET o == EdgeOps[ei]
           tail_table == doc[o.ni].resources[o.ti]
           tail_table_name == tail_table.name
           foreign_key == FkOf(o)
           tail_column_names == TailColumnNames(foreign_key)
           reference == foreign_key.reference
           head_table_name == reference.resource
           head_column_names == HeadColumnNames(reference)
           card_self == reference.cardinalitySelf
           card_ref == reference.cardinalityRef
       IN  IF RefIdentity(reference) \notin DOMAIN present_tables
           THEN \* KeyError
                /\ pc' = "error"
                /\ UNCHANGED <<nodes, edges, table_edges, ei>>
           ELSE LET head_table == present_tables[RefIdentity(reference)]
                IN  IF opt.display_columns
                    THEN \E g \in {_add_foreign_key_edge(
                                    [nodes |-> nodes, edges |-> edges],
                                    tail_table_name, head_table_name,
                                    tail_table, head_table,
                                    tail_column_names, head_column_names,
                                    EdgeLabel(opt, reference),
                                    EdgeTooltip(opt, reference, tail_table_name,
                                                tail_column_names),
                                    opt, EdgeColor(foreign_key),
                                    card_self, card_ref)} :
                             \* an IndexError or ValueError leaves the call with
                             \* the junctions and connectors it has added
                             /\ nodes' = g.nodes
                             /\ edges' = g.edges
                             /\ pc' = IF g.raised THEN "error" ELSE pc
                             /\ ei' = IF g.raised THEN ei ELSE ei + 1
                             /\ UNCHANGED table_edges
                    ELSE /\ table_edges' =
                                SetAdd(table_edges, <<tail_table_name, head_table_name>>)
                         /\ ei' = ei + 1
                         /\ UNCHANGED <<pc, nodes, edges>>
    /\ UNCHANGED <<doc, options, opt, present_tables, tables_with_edges, rendered, ti,
                   iteration_order, returned>>

PlainEdge(pair) == Edge(pair[1], pair[2], [NoAttrs EXCEPT !.color = "black"])

\* The orders in which iterating the set may yield its elements.  The order
\* follows from the hashes of the elements and from the insertions; the
\* hashes of strings are drawn once per process, so that any order is
\* possible the first time and the same insertions give the same order
\* from then on.
IterationOrders(order, s) ==
    IF s \in DOMAIN order THEN {order[s]} ELSE Perms(s)

\* the end of one namespace's pass: without display_columns the collected
\* pairs become plain edges, in the order in which the set yields them
EndNamespace ==
    /\ pc = "edges"
    /\ ei <= Len(EdgeOps)
    /\ EdgeOps[ei].op = "end"
    /\ IF ~opt.display_columns
       THEN \E order \in IterationOrders(iteration_order, table_edges) :
                LET g == AddEdges([nodes |-> nodes, edges |-> edges],
                                  [k \in 1..Len(order) |-> PlainEdge(order[k])])
                IN  /\ nodes' = g.nodes
                    /\ edges' = g.edges
                    /\ iteration_order' =
                            IF Len(table_edges) > 1
                            THEN (table_edges :> order) @@ iteration_order
                            ELSE iteration_order
       ELSE UNCHANGED <<nodes, edges, iteration_order>>
    /\ table_edges' = <<>>
    /\ ei' = ei + 1
    /\ UNCHANGED <<doc, options, opt, pc, present_tables, tables_with_edges, rendered,
                   ti, returned>>

ReturnGraph ==
    /\ pc = "edges"
    /\ ei > Len(EdgeOps)
    /\ pc' = "done"
    /\ returned' = Append(returned, [doc |-> doc, options |-> options,
                                     nodes |-> nodes, edges |-> edges])
    /\ UNCHANGED <<doc, options, opt, present_tables, tables_with_edges, rendered,
                   nodes, edges, table_edges, ti, ei, iteration_order>>

Next == Inventory \/ AddTableNode \/ AddForeignKey \/ EndNamespace \/ ReturnGraph

-----------------------------------------------------------------------------
(* The inputs *)

options_defaults ==
    [fontsize |-> 8, rankdir |-> "LR", display_columns |-> TRUE,
     display_indexes |-> TRUE, display_crowfoots |-> TRUE,
     omit_isolated_tables |-> FALSE]

\* a column with nothing but a name and a type
Column(c) ==
    [name |-> c, type |-> "int", constraints |-> None, default_value |-> None,
     description |-> None]

\* a table without unique constraints and without indexes
Table(name, cols, pk, fks) ==
    [name |-> name, fields |-> [i \in 1..Len(cols) |-> Column(cols[i])],
     primaryKey |-> pk, foreignKeys |-> fks, unique |-> None, indexes |-> None]

PlainReference(ns, resource, fields) ==
    [datapackage |-> ns, resource |-> resource, fields |-> fields,
     cardinalitySelf |-> None, cardinalityRef |-> None,
     label |-> None, name |-> None]

ForeignKey(fields, reference, enforced) ==
    [fields |-> fields, reference |-> reference, enforced |-> enforced]

\* opt = options_defaults.copy(); opt.update(options)
MergedOptions(previous, kwargs) ==
    [k \in DOMAIN options_defaults |->
        IF k \in DOMAIN kwargs THEN kwargs[k] ELSE options_defaults[k]]

\* the first call of a process, with the options o
Start(d, o) ==
    /\ doc = d
    /\ options = o
    /\ opt = MergedOptions(options_defaults, o)
    /\ iteration_order = <<>>
    /\ returned = <<>>
    /\ pc = "inventory"
    /\ present_tables = <<>>
    /\ tables_with_edges = {}
    /\ rendered = <<>>
    /\ nodes = <<>>
    /\ edges = <<>>
    /\ table_edges = <<>>
    /\ ti = 1
    /\ ei = 1

\* the foreign keys that a plan gives to the table at <<ni, k>>
PlannedFks(plan, ni, k) ==
    LET mine == SelectSeq(plan, LAMBDA f : f.ni = ni /\ f.ti = k)
    IN  [i \in 1..Len(mine) |-> mine[i].fk]

\* The tables of a document in the order the choices below number them, and
\* the sequences of at most k numbers of 1..n in non-decreasing order: the
\* foreign keys of a table are chosen up to their order in the list.
TableOrder == <<"a", "b">>

Ascending(n, k) ==
    {s \in SeqsUpTo(1..n, k) : \A i \in 1..(Len(s) - 1) : s[i] <= s[i+1]}

\* the c-th choice of a foreign key of InitTopo: its table <<ni, ti>> and the
\* table it references
TopoChoice(c) ==
    LET r == (c - 1) % 4
        p == (c - 1) \div 4
    IN  [ni |-> (p \div MaxTables) + 1, ti |-> (p % MaxTables) + 1,
         fk |-> ForeignKey(<<"y">>,
                    PlainReference(NsNames[(r \div 2) + 1], TableOrder[(r % 2) + 1],
                                   <<"x">>), None)]

\* Documents that differ in where the tables and the foreign keys are: up to
\* MaxTables tables in the first namespace and up to one in the second (names
\* may repeat), up to MaxFks single-column foreign keys between any of them,
\* also to missing tables.  The two table names are interchangeable, so the
\* first table of the first namespace is named a.
InitTopo ==
    \E l \in {<<l1, l2>> : l1 \in {t \in SeqsUpTo(TableNames, MaxTables) :
                                        t = <<>> \/ t[1] = "a"},
                             l2 \in SeqsUpTo(TableNames, 1)} :
    \E cs \in Ascending(2 * MaxTables * 4, MaxFks) :
    \E dc, omit \in BOOLEAN :
        LET plan == [i \in 1..Len(cs) |-> TopoChoice(cs[i])]
        IN  /\ \A i \in 1..Len(plan) : plan[i].ti <= Len(l[plan[i].ni])
            /\ Start([ni \in 1..2 |->
                        [datapackage |-> NsNames[ni],
                         resources |-> [k \in 1..Len(l[ni]) |->
                            Table(l[ni][k], <<"x", "y">>, Some(<<"x">>),
                                  PlannedFks(plan, ni, k))]]],
                     [options_defaults EXCEPT !.display_columns = dc,
                                              !.omit_isolated_tables = omit])

SpecTopo == InitTopo /\ [][Next]_vars

\* Documents that differ in the keys: tables a and b of three columns, each
\* with or without a primary key, and up to MaxFks foreign keys of a, of one
\* or two columns on either side (the two sides need not be of equal length,
\* and a key may name a column that is missing or no column), drawn left to
\* right or right to left.
PkChoices == {None, Some(<<"y">>), Some(<<"z", "x">>)}
FieldChoices == <<<<"x">>, <<"x", "y">>, <<"z", "y">>>>

\* keys that name a column q which no table has, or no column at all: tail
\* fields and head fields
BrokenKeys ==
    <<<<<<"y", "q">>, <<"x", "y">>>>,
      <<<<"y", "z">>, <<"x", "q">>>>,
      <<<<"y", "z">>, <<>>>>>>

\* the c-th choice of a foreign key of InitEdge: tail fields, head table and
\* head fields
\* the later choices are the keys of BrokenKeys, of a to b
EdgeChoice(c) ==
    LET h == (c - 1) % 2
        p == (c - 1) \div 2
        broken == c > 3 * 3 * 2
        tail_fields == IF broken THEN BrokenKeys[c - 3 * 3 * 2][1]
                       ELSE FieldChoices[(p \div 3) + 1]
        head_name == IF broken THEN "b" ELSE TableOrder[h + 1]
        head_fields == IF broken THEN BrokenKeys[c - 3 * 3 * 2][2]
                       ELSE FieldChoices[(p % 3) + 1]
    IN  ForeignKey(tail_fields,
            [PlainReference("public", head_name, head_fields)
                EXCEPT !.cardinalitySelf = Some("1..N"),
                       !.cardinalityRef = Some("1")], None)

InitEdge ==
    \E pkA, pkB \in PkChoices :
    \E cs \in Ascending(3 * 3 * 2 + Len(BrokenKeys), MaxFks) :
    \E rankdir \in {"LR", "RL"} :
        Start(<<[datapackage |-> "public",
                 resources |-> <<Table("a", <<"x", "y", "z">>, pkA,
                                       [i \in 1..Len(cs) |-> EdgeChoice(cs[i])]),
                                 Table("b", <<"x", "y", "z">>, pkB, <<>>)>>]>>,
              [options_defaults EXCEPT !.rankdir = rankdir])

SpecEdge == InitEdge /\ [][Next]_vars

\* Documents that differ in the text of one foreign key of a to b: its
\* cardinalities, label, name and enforced flag, over one or two columns,
\* under every direction and with or without crowfoots and columns.  A label
\* may have white space at its ends, a name may be white space only, and the
\* fields of either side may be one str in place of a list.
LabelFields ==
    <<<<<<"y">>, <<"y">>>>,
      <<<<"y", "z">>, <<"y", "z">>>>,
      <<"y", <<"x">>>>,
      <<<<"y">>, "x">>>>

InitLabel ==
    \E cs, cr \in Opt(Cardinalities) :
    \E lbl \in Opt({"owns", " owns ", VT \o "owns" \o US}), nm \in Opt({"fk1", "\t"}), enf \in Opt({FALSE}) :
    \E f \in 1..Len(LabelFields) :
    \E rankdir \in {"LR", "RL"}, dcrow, dcol \in BOOLEAN :
        Start(<<[datapackage |-> "public",
                 resources |->
                    <<Table("a", <<"x", "y", "z">>, Some(<<"x">>),
                            <<ForeignKey(LabelFields[f][1],
                                [datapackage |-> "public", resource |-> "b",
                                 fields |-> LabelFields[f][2],
                                 cardinalitySelf |-> cs, cardinalityRef |-> cr,
                                 label |-> lbl, name |-> nm], enf)>>),
                      Table("b", <<"x", "y", "z">>, Some(<<"y">>), <<>>)>>]>>,
              [options_defaults EXCEPT !.rankdir = rankdir,
                                       !.display_crowfoots = dcrow,
                                       !.display_columns = dcol])

SpecLabel == InitLabel /\ [][Next]_vars

\* Documents of one table a that differ in its columns and primary key: up
\* to MaxCols column names (names may repeat) and a primary key of up to
\* MaxPk names (names may repeat or be no column), with one foreign key of
\* one column to itself.
InitPort ==
    \E cols \in SeqsUpTo(ColNames, MaxCols) :
    \E pk \in Opt(SeqsUpTo(ColNames, MaxPk)) :
    \E c \in ColNames :
        /\ cols # <<>>
        /\ Start(<<[datapackage |-> "public",
                    resources |->
                       <<Table("a", cols, pk,
                               <<ForeignKey(<<c>>, PlainReference("public", "a", <<c>>),
                                            None)>>)>>]>>,
                 options_defaults)

SpecPort == InitPort /\ [][Next]_vars

\* Documents of one table a that differ in the column y: the shape of its
\* constraints, its default expression, its description and the unique
\* constraints of the table that name it.
ConstraintShapes ==
    {None,
     Some([required |-> None, unique |-> None]),
     Some([required |-> None, unique |-> Some(TRUE)]),
     Some([required |-> Some(FALSE), unique |-> None]),
     Some([required |-> Some(TRUE), unique |-> None]),
     Some([required |-> Some(FALSE), unique |-> Some(TRUE)])}

DefaultTexts ==
    {<<"n", "e", "x", "t", "v", "a", "l", "(", "'", "s", "'", ")">>,
     <<"N", "e", "x", "t", "v", "a", "l", "(", "s", ")">>,
     <<"0">>,
     <<"n", "e", "x", "t">>,
     <<"a", "\n", "b">>,
     <<"a", " ">>}

Descriptions == {"note", "l1\nl2"}

UniqueShapes ==
    {None, Some(<<[fields |-> <<"y">>]>>), Some(<<[fields |-> <<"x", "y">>]>>)}

InitColumn ==
    \E constraints \in ConstraintShapes, default_value \in Opt(DefaultTexts) :
    \E description \in Opt(Descriptions), unique \in UniqueShapes :
    \E pk \in {None, Some(<<"x">>)}, dcol \in BOOLEAN :
        Start(<<[datapackage |-> "public",
                 resources |->
                    <<[Table("a", <<"x", "y">>, pk,
                             <<ForeignKey(<<"y">>, PlainReference("public", "a", <<"x">>),
                                          None)>>)
                        EXCEPT !.fields[2].constraints = constraints,
                               !.fields[2].default_value = default_value,
                               !.fields[2].description = description,
                               !.unique = unique]>>]>>,
              [options_defaults EXCEPT !.display_columns = dcol])

SpecColumn == InitColumn /\ [][Next]_vars

\* Documents of one table a that differ in its indexes: up to MaxIdx indexes,
\* each unique, not unique or without the entry, with definitions of which
\* one is the beginning of the others; with and without the index row and
\* the column rows.
IndexDefinitions == {<<"a">>, <<"a", " ", "b">>, <<"a", "b">>}

InitIndex ==
    \E indexes \in Opt(SeqsUpTo([definition : IndexDefinitions, unique : Opt(BOOLEAN)],
                                 MaxIdx)) :
    \E dind, dcol \in BOOLEAN :
        Start(<<[datapackage |-> "public",
                 resources |->
                    <<[Table("a", <<"x", "y">>, Some(<<"x">>),
                             <<ForeignKey(<<"y">>, PlainReference("public", "a", <<"x">>),
                                          None)>>)
                        EXCEPT !.indexes = indexes]>>]>>,
              [options_defaults EXCEPT !.display_indexes = dind,
                                       !.display_columns = dcol])

SpecIndex == InitIndex /\ [][Next]_vars

\* Up to MaxCalls calls of get_graph, in one process or in several: documents
\* of the tables a and b in which a has foreign keys to the tables of a head
\* plan, and options that leave out some or all of the keys.
HeadPlans == {<<"a", "b">>, <<"b", "a">>, <<"b">>}

CallDocs ==
    {<<[datapackage |-> "public",
        resources |->
            <<Table("a", <<"x", "y">>, Some(<<"x">>),
                    [i \in 1..Len(heads) |->
                        ForeignKey(<<"y">>, PlainReference("public", heads[i], <<"x">>),
                                   None)]),
              Table("b", <<"x", "y">>, Some(<<"x">>), <<>>)>>]>> : heads \in HeadPlans}

CallOptions == {<<>>, [display_columns |-> FALSE], [rankdir |-> "RL"]}

\* a call of get_graph after a call has returned, in a process whose sets
\* iterate as orders tells
LaterCall(orders) ==
    /\ pc = "done"
    /\ Len(returned) < MaxCalls
    /\ \E d \in CallDocs, o \in CallOptions :
          /\ doc' = d
          /\ options' = o
          /\ opt' = MergedOptions(opt, o)
    /\ pc' = "inventory"
    /\ present_tables' = <<>>
    /\ tables_with_edges' = {}
    /\ rendered' = <<>>
    /\ nodes' = <<>>
    /\ edges' = <<>>
    /\ table_edges' = <<>>
    /\ ti' = 1
    /\ ei' = 1
    /\ iteration_order' = orders
    /\ UNCHANGED returned

\* a later call of get_graph in the same process
CallAgain == LaterCall(iteration_order)

\* a later call of get_graph in a new process: the interpreter draws the
\* hashes of strings anew, no order of a set is settled yet
CallInNewProcess == LaterCall(<<>>)

InitCalls == \E d \in CallDocs, o \in CallOptions : Start(d, o)

NextCalls == Next \/ CallAgain \/ CallInNewProcess

SpecCalls == InitCalls /\ [][NextCalls]_vars

Init == InitCalls \/ InitTopo \/ InitEdge \/ InitLabel \/ InitPort \/ InitColumn \/ InitIndex

Spec == Init /\ [][Next]_vars

-----------------------------------------------------------------------------
(* Vocabulary of the claims *)

TailIdentity(o) == Identity(o.ni, doc[o.ni].resources[o.ti])

\* the table at p is neither tail nor head of any foreign key of the document
Isolated(p) ==
    \A o \in AllFks :
        /\ TailIdentity(o) # Identity(p[1], TableAt(p))
        /\ RefIdentity(FkOf(o).reference) # Identity(p[1], TableAt(p))

\* the foreign keys whose step of the edge loop is over
ProcessedFks == {k \in 1..Len(EdgeOps) : k < ei /\ EdgeOps[k].op = "fk"}

\* what a step has added to the graph
AddedEdges == SubSeq(edges', Len(edges) + 1, Len(edges'))
AddedNodes == SubSeq(nodes', Len(nodes) + 1, Len(nodes'))

IsPlain(e) ==
    /\ e.tailport = "" /\ e.headport = ""
    /\ e.label = "" /\ e.tooltip = ""
    /\ e.arrowtail = "" /\ e.arrowhead = ""

DuplicateIdentity ==
    \E p, q \in Range(TablePositions) :
        p # q /\ Identity(p[1], TableAt(p)) = Identity(q[1], TableAt(q))

\* a step of the edge loop that has drawn the foreign key at EdgeOps[ei]
FkDrawn ==
    /\ pc = "edges"
    /\ ei <= Len(EdgeOps)
    /\ EdgeOps[ei].op = "fk"
    /\ opt.display_columns
    /\ ei' = ei + 1

\* the table has unique column names and a primary key (if any) of distinct
\* names that are all columns
WellFormed(table) ==
    LET cols == ColumnNames(table)
    IN  /\ \A i, j \in 1..Len(cols) : i # j => cols[i] # cols[j]
        /\ table.primaryKey # None =>
              LET pk == table.primaryKey[1]
              IN  /\ \A i, j \in 1..Len(pk) : i # j => pk[i] # pk[j]
                  /\ Range(pk) \subseteq Range(cols)

PkOf(table) == IF table.primaryKey = None THEN <<>> ELSE table.primaryKey[1]

\* the node ns[j] shows column col in the row with the port named by port
RowShows(ns, node_name, port, col) ==
    \E j \in 1..Len(ns) :
        /\ ns[j].name = node_name
        /\ \E r \in 1..Len(ns[j].rows) :
              /\ ns[j].rows[r].iport = port \/ ns[j].rows[r].fport = port
              /\ ns[j].rows[r].name = col
              /\ port \in {"i" \o ToString(r), "f" \o ToString(r)}

-----------------------------------------------------------------------------
(* C1: for a table with unique column names and a primary key of distinct   *)
(* column names, _get_port maps the columns one-to-one onto 1..N; the k-th  *)
(* primary key column gets port k and any other column gets the length of   *)
(* the primary key plus its 1-based rank among the other columns.           *)
C1_PortBijection ==
    \A p \in Range(TablePositions) :
        LET table == TableAt(p)
            cols == ColumnNames(table)
            pk == PkOf(table)
        IN  WellFormed(table) =>
              /\ {_get_port(table, cols[i]) : i \in 1..Len(cols)} = 1..Len(cols)
              /\ \A i, j \in 1..Len(cols) :
                    i # j => _get_port(table, cols[i]) # _get_port(table, cols[j])
              /\ \A k \in 1..Len(pk) : _get_port(table, pk[k]) = k
              /\ \A i \in 1..Len(cols) :
                    cols[i] \notin Range(pk) =>
                        _get_port(table, cols[i]) =
                            Len(pk) + Cardinality({j \in 1..i : cols[j] \notin Range(pk)})

C1_Witness ==
    /\ pc = "done"
    /\ WellFormed(TableAt(<<1, 1>>))
    /\ Len(PkOf(TableAt(<<1, 1>>))) = 2
    /\ Len(TableAt(<<1, 1>>).fields) = 3
    /\ \E i \in 1..Len(edges) : edges[i].tailport = "f3" /\ edges[i].headport = "i3"

(* C2: the rows of a table's node are in port order starting at 1 after the *)
(* title, the row of column c carries port k exactly when _get_port gives k *)
(* for c, and every port that a foreign key's edges carry names the row of  *)
(* the column the foreign key refers to, in the tail and in the head table. *)
C2_RowsMatchPorts ==
    \A p \in Range(rendered) : \A j \in 1..Len(nodes) :
        LET table == TableAt(p)
            cols == ColumnNames(table)
        IN  nodes[j].name = table.name =>
              /\ Len(nodes[j].rows) = Len(cols)
              /\ \A r \in 1..Len(nodes[j].rows) :
                    /\ nodes[j].rows[r].iport = "i" \o ToString(r)
                    /\ nodes[j].rows[r].fport = "f" \o ToString(r)
              /\ \A c \in Range(cols) : \A k \in 1..Len(cols) :
                    (nodes[j].rows[k].name = c) <=> (_get_port(table, c) = k)

C2_EdgesHitRows ==
    FkDrawn =>
        LET o == EdgeOps[ei]
            fk == FkOf(o)
            tname == doc[o.ni].resources[o.ti].name
            hname == fk.reference.resource
            tails == SelectSeq(AddedEdges, LAMBDA e : e.tailport # "")
            heads == SelectSeq(AddedEdges, LAMBDA e : e.headport # "")
        IN  /\ Len(tails) = Len(fk.fields)
            /\ Len(heads) = Len(fk.reference.fields)
            /\ \A k \in 1..Len(tails) :
                  /\ tails[k].tail = tname
                  /\ RowShows(nodes', tname, tails[k].tailport, fk.fields[k])
            /\ \A k \in 1..Len(heads) :
                  /\ heads[k].head = hname
                  /\ RowShows(nodes', hname, heads[k].headport, fk.reference.fields[k])

C2_PortsAgree == []C2_RowsMatchPorts /\ [][C2_EdgesHitRows]_vars

C2_Witness ==
    /\ pc = "done"
    /\ TableAt(<<1, 1>>).primaryKey = Some(<<"z", "x">>)
    /\ TableAt(<<1, 2>>).primaryKey = Some(<<"y">>)
    /\ \E i \in 1..Len(edges) :
          /\ edges[i].tail = "a" /\ edges[i].head = "b"
          /\ edges[i].tailport = "f2" /\ edges[i].headport = "i2"

(* C3, as amended: a foreign key of one column on each side adds no node    *)
(* and one edge between the two table nodes at the ports of _get_port; a    *)
(* foreign key of L > 1 columns on each side adds L connectors from the     *)
(* tail table to its tail junction, L connectors from its head junction to  *)
(* the head table and one labelled final edge between the junctions; the    *)
(* graph holds one tail junction and one head junction per distinct (tail   *)
(* table, tail fields, head table) of the foreign keys drawn so far, so a   *)
(* junction shared by k foreign keys carries k * L connectors.              *)
C3_Combos(side) ==
    {<<doc[EdgeOps[k].ni].resources[EdgeOps[k].ti].name,
       FkOf(EdgeOps[k]).fields,
       FkOf(EdgeOps[k]).reference.resource>> :
        k \in {n \in ProcessedFks :
                 Len(IF side = "tail" THEN FkOf(EdgeOps[n]).fields
                     ELSE FkOf(EdgeOps[n]).reference.fields) > 1}}

C3_Junctions(side) ==
    {j \in 1..Len(nodes) :
        /\ nodes[j].shape = "point"
        /\ \E e \in 1..Len(edges) :
              /\ edges[e].dir = "none"
              /\ IF side = "tail"
                 THEN edges[e].head = nodes[j].name /\ edges[e].tailport # ""
                 ELSE edges[e].tail = nodes[j].name /\ edges[e].headport # ""}

C3_JunctionCount ==
    opt.display_columns /\ pc \in {"edges", "done"} =>
        /\ Cardinality(C3_Junctions("tail")) = Cardinality(C3_Combos("tail"))
        /\ Cardinality(C3_Junctions("head")) = Cardinality(C3_Combos("head"))
        /\ C3_Junctions("tail") \cap C3_Junctions("head") = {}
        /\ Cardinality({j \in 1..Len(nodes) : nodes[j].shape = "point"})
            = Cardinality(C3_Junctions("tail")) + Cardinality(C3_Junctions("head"))

C3_PerForeignKey ==
    FkDrawn =>
        LET o == EdgeOps[ei]
            fk == FkOf(o)
            L == Len(fk.fields)
            tail_table == doc[o.ni].resources[o.ti]
            head_table == present_tables[RefIdentity(fk.reference)]
            tname == tail_table.name
            hname == fk.reference.resource
            r == IF opt.rankdir = "RL" THEN "i" ELSE "f"
            l == IF opt.rankdir = "RL" THEN "f" ELSE "i"
            final == AddedEdges[Len(AddedEdges)]
            junction(n) == \E j \in 1..Len(nodes') :
                              nodes'[j].name = n /\ nodes'[j].shape = "point"
        IN  Len(fk.reference.fields) = L =>
              IF L = 1
              THEN /\ nodes' = nodes
                   /\ Len(AddedEdges) = 1
                   /\ final.tail = tname /\ final.head = hname
                   /\ final.tailport = r \o ToString(_get_port(tail_table, fk.fields[1]))
                   /\ final.headport =
                        l \o ToString(_get_port(head_table, fk.reference.fields[1]))
                   /\ final.label # ""
              ELSE /\ Len(AddedEdges) = 2 * L + 1
                   /\ final.tail # final.head
                   /\ junction(final.tail) /\ junction(final.head)
                   /\ final.tailport = "" /\ final.headport = ""
                   /\ final.label # ""
                   /\ \A k \in 1..Len(AddedNodes) :
                        AddedNodes[k].name \in {final.tail, final.head}
                   /\ \A k \in 1..L :
                        /\ AddedEdges[k].tail = tname
                        /\ AddedEdges[k].head = final.tail
                        /\ AddedEdges[k].label = ""
                        /\ AddedEdges[L + k].tail = final.head
                        /\ AddedEdges[L + k].head = hname
                        /\ AddedEdges[L + k].label = ""

C3_EdgeTopology == []C3_JunctionCount /\ [][C3_PerForeignKey]_vars

(* C3, as stated: in the returned graph, for every foreign key of L > 1     *)
(* columns on each side, exactly L connectors fan into its tail junction,   *)
(* exactly L leave its head junction and exactly one final edge joins the   *)
(* two junctions (in documents whose foreign keys all have as many tail    *)
(* fields as reference fields).                                             *)
C3_Original ==
    /\ pc = "done" /\ opt.display_columns
    /\ \A o \in AllFks : Len(FkOf(o).fields) = Len(FkOf(o).reference.fields)
    =>
        \A k \in ProcessedFks :
            LET fk == FkOf(EdgeOps[k])
                L == Len(fk.fields)
                tname == doc[EdgeOps[k].ni].resources[EdgeOps[k].ti].name
                hname == fk.reference.resource
                tj == TailAgg(tname, hname, fk.fields)
                hj == HeadAgg(tname, hname, fk.fields)
            IN  Len(fk.reference.fields) = L /\ L > 1 =>
                  /\ Cardinality({e \in 1..Len(edges) :
                        edges[e].head = tj /\ edges[e].dir = "none"}) = L
                  /\ Cardinality({e \in 1..Len(edges) :
                        edges[e].tail = hj /\ edges[e].dir = "none"}) = L
                  /\ Cardinality({e \in 1..Len(edges) :
                        /\ edges[e].tail = tj /\ edges[e].head = hj
                        /\ edges[e].dir = "both"}) = 1

C3_Witness ==
    /\ pc = "done"
    /\ Len(TableAt(<<1, 1>>).foreignKeys) = 1
    /\ TableAt(<<1, 1>>).foreignKeys[1].fields = <<"x", "y">>
    /\ TableAt(<<1, 1>>).foreignKeys[1].reference.fields = <<"z", "y">>
    /\ Cardinality({j \in 1..Len(nodes) : nodes[j].shape = "point"}) = 2
    /\ Cardinality({e \in 1..Len(edges) : edges[e].dir = "none"}) = 4
    /\ Cardinality({e \in 1..Len(edges) : edges[e].dir = "both"}) = 1

-----------------------------------------------------------------------------
(* C4: with omit_isolated_tables the tables that get no node are exactly    *)
(* those that are neither tail nor head of any foreign key of the document; *)
(* both end tables of every foreign key that got an edge were rendered and  *)
(* every end of an edge is a rendered node; without the option every table  *)
(* is rendered.                                                             *)
C4_OmitIsolatedExact ==
    pc \in {"edges", "done"} =>
        /\ \A p \in Range(TablePositions) :
                p \in Range(rendered) <=> (~opt.omit_isolated_tables \/ ~Isolated(p))
        /\ \A k \in ProcessedFks :
                /\ <<EdgeOps[k].ni, EdgeOps[k].ti>> \in Range(rendered)
                /\ \E p \in Range(rendered) :
                        Identity(p[1], TableAt(p)) = RefIdentity(FkOf(EdgeOps[k]).reference)
        /\ \A i \in 1..Len(edges) : \A j \in 1..Len(nodes) :
                nodes[j].name \in {edges[i].tail, edges[i].head} => nodes[j].shape # ""

C4_Witness ==
    /\ pc = "done"
    /\ opt.omit_isolated_tables
    /\ Len(edges) > 0
    /\ \E p \in Range(TablePositions) : p \notin Range(rendered)
    /\ \E p \in Range(TablePositions) : p[1] = 2 /\ p \in Range(rendered)

(* C5: without display_columns the pass over one namespace emits, for the   *)
(* foreign keys of that namespace's tables, at most one edge per (tail      *)
(* table, head table) pair; every edge is plain (no ports, label, tooltip   *)
(* or arrow symbols) and the graph has no junction node.                    *)
C5_PlainDeduplicated ==
    [][~opt.display_columns =>
        /\ \A i, j \in 1..Len(AddedEdges) :
                i # j => <<AddedEdges[i].tail, AddedEdges[i].head>>
                         # <<AddedEdges[j].tail, AddedEdges[j].head>>
        /\ \A i \in 1..Len(AddedEdges) :
                \E o \in AllFks :
                    /\ o.ni = EdgeOps[ei].ni
                    /\ doc[o.ni].resources[o.ti].name = AddedEdges[i].tail
                    /\ FkOf(o).reference.resource = AddedEdges[i].head
        /\ \A i \in 1..Len(edges') : IsPlain(edges'[i])
        /\ \A j \in 1..Len(nodes') : nodes'[j].shape # "point"
      ]_vars

C5_Witness ==
    /\ pc = "done"
    /\ ~opt.display_columns
    /\ Len(edges) = 1
    /\ \E o1, o2 \in AllFks :
            /\ o1 # o2
            /\ TailIdentity(o1) = TailIdentity(o2)
            /\ RefIdentity(FkOf(o1).reference) = RefIdentity(FkOf(o2).reference)

-----------------------------------------------------------------------------
(* The final edge of the one foreign key of the documents of InitLabel *)

TheFk == TableAt(<<1, 1>>).foreignKeys[1]
TheRef == TheFk.reference

FinalEdges == {e \in 1..Len(edges) : edges[e].dir = "both"}

\* names separated by a comma and a blank
Listed(names) ==
    IF Len(names) = 1 THEN names[1]
    ELSE IF Len(names) = 2 THEN names[1] \o ", " \o names[2]
    ELSE names[1] \o ", " \o names[2] \o ", " \o names[3]

\* the reference's label if it has one, else its name if it has one
RelationName ==
    IF Truthy(TheRef.label) THEN TheRef.label[1]
    ELSE IF Truthy(TheRef.name) THEN TheRef.name[1]
    ELSE ""

HasCardinality == Truthy(TheRef.cardinalitySelf) \/ Truthy(TheRef.cardinalityRef)

LeftCard == Str(IF opt.rankdir = "RL" THEN TheRef.cardinalityRef
                ELSE TheRef.cardinalitySelf)
RightCard == Str(IF opt.rankdir = "RL" THEN TheRef.cardinalitySelf
                 ELSE TheRef.cardinalityRef)

\* "<left> <-> <right>"; an empty left cardinality leaves no blank in front
CardText == (IF LeftCard = "" THEN "" ELSE LeftCard \o " ") \o Arrow \o " " \o RightCard

\* the same without a blank at its end
CardTextAtEnd ==
    IF RightCard = "" THEN (IF LeftCard = "" THEN "" ELSE LeftCard \o " ") \o Arrow
    ELSE CardText

\* the columns that the fields of a key name: one str names one column
NamedColumns(fields) == IF IsStr(fields) THEN <<fields>> ELSE fields

TailSide == TableAt(<<1, 1>>).name \o "(" \o Listed(NamedColumns(TheFk.fields)) \o ")"
HeadSide == TheRef.resource \o "(" \o Listed(NamedColumns(TheRef.fields)) \o ")"

SidesText ==
    IF opt.rankdir = "RL" THEN HeadSide \o " " \o Arrow \o " " \o TailSide
    ELSE TailSide \o " " \o Arrow \o " " \o HeadSide

\* the cardinality part followed by the label (on a line of its own) or by
\* the name (after three blanks)
ExpectedLabel ==
    IF ~HasCardinality THEN RelationName
    ELSE IF RelationName = "" THEN CardTextAtEnd
    ELSE CardText \o (IF Truthy(TheRef.label) THEN "\n" ELSE "   ")
         \o RelationName

\* the cardinality part, the two sides and the label or the name, five
\* blanks between them
ExpectedTooltip ==
    (IF HasCardinality THEN CardText \o "     " ELSE "")
    \o SidesText
    \o (IF RelationName = "" THEN "" ELSE "     " \o RelationName)

\* shown is text without the white space at its two ends: the part of text
\* from place i to place j, where all that lies outside is white space and
\* the characters at i and at j are none
ShownWithoutEnds(shown, text) ==
    \E i \in 1..(Len(text) + 1), j \in 0..Len(text) :
        /\ shown = SubSeq(text, i, j)
        /\ \A k \in 1..Len(text) :
              k < i \/ k > j => SubSeq(text, k, k) \in WhiteSpace
        /\ IF i <= j
           THEN /\ SubSeq(text, i, i) \notin WhiteSpace
                /\ SubSeq(text, j, j) \notin WhiteSpace
           ELSE i = j + 1

Symbols ==
    [c \in {"0..1", "1", "0..N", "1..N"} |->
        CASE c = "0..1" -> "teeodot"    \* one or zero
          [] c = "1"    -> "teetee"     \* exactly one
          [] c = "0..N" -> "crowodot"   \* zero or many
          [] c = "1..N" -> "crowtee"]   \* one or many

(* C6: _get_crowfoot gives 'none' for every cardinality when                *)
(* display_crowfoots is off; when it is on it gives four pairwise distinct  *)
(* symbols for "0..1", "1", "0..N" and "1..N" and 'none' for every other    *)
(* value, an absent one included.                                           *)
C6_Crowfoot ==
    /\ \A c \in {TheRef.cardinalitySelf, TheRef.cardinalityRef} :
          _get_crowfoot(c, opt) =
              IF opt.display_crowfoots /\ c # None /\ c[1] \in DOMAIN Symbols
              THEN Symbols[c[1]] ELSE "none"
    /\ \A c, d \in DOMAIN Symbols :
          /\ c # d => Symbols[c] # Symbols[d]
          /\ Symbols[c] # "none"
    /\ \A e \in FinalEdges :
          {edges[e].arrowtail, edges[e].arrowhead} \subseteq
              {"none"} \cup (IF opt.display_crowfoots
                             THEN {Symbols[c] : c \in DOMAIN Symbols} ELSE {})

C6_Witness ==
    /\ pc = "done"
    /\ opt.display_crowfoots
    /\ TheRef.cardinalitySelf = Some("1..N")
    /\ TheRef.cardinalityRef = Some("bogus")
    /\ \E e \in FinalEdges :
          edges[e].arrowtail = "crowtee" /\ edges[e].arrowhead = "none"

(* C7, as stated: on the final edge the arrowhead is the crowfoot of        *)
(* cardinalitySelf and the arrowtail the crowfoot of cardinalityRef.        *)
C7_Original ==
    \A e \in FinalEdges :
        /\ edges[e].arrowhead = _get_crowfoot(TheRef.cardinalitySelf, opt)
        /\ edges[e].arrowtail = _get_crowfoot(TheRef.cardinalityRef, opt)

(* C7, as amended: on the final edge the arrowtail is the crowfoot of       *)
(* cardinalitySelf and the arrowhead the crowfoot of cardinalityRef.        *)
C7_ArrowEnds ==
    /\ pc = "done" /\ opt.display_columns => Cardinality(FinalEdges) = 1
    /\ \A e \in FinalEdges :
          /\ edges[e].arrowtail = _get_crowfoot(TheRef.cardinalitySelf, opt)
          /\ edges[e].arrowhead = _get_crowfoot(TheRef.cardinalityRef, opt)

C7_Witness ==
    /\ pc = "done"
    /\ TheRef.cardinalitySelf = Some("1..N")
    /\ TheRef.cardinalityRef = Some("1")
    /\ \E e \in FinalEdges :
          edges[e].arrowtail = "crowtee" /\ edges[e].arrowhead = "teetee"

(* C8, as stated: the label of the final edge reads "<self> <-> <ref>"    *)
(* under LR and "<ref> <-> <self>" under RL, the tooltip adds               *)
(* "tail(columns) <-> head(columns)" under LR and "head(columns) <->        *)
(* tail(columns)" under RL, and both are followed by the reference's label  *)
(* if it has one, else by its name if it has one.                           *)
C8_Original ==
    \A e \in FinalEdges :
        /\ edges[e].label = ExpectedLabel
        /\ edges[e].tooltip = ExpectedTooltip

(* C8, as amended: the label and the tooltip of the final edge are the      *)
(* texts that C8 states, each without the white space at the two ends of    *)
(* the whole text.                                                          *)
C8_LabelAndTooltip ==
    \A e \in FinalEdges :
        /\ ShownWithoutEnds(edges[e].label, ExpectedLabel)
        /\ ShownWithoutEnds(edges[e].tooltip, ExpectedTooltip)

\* two columns under RL, and a label whose last character is white space
C8_Witness ==
    /\ pc = "done"
    /\ opt.rankdir = "RL"
    /\ Len(TheFk.fields) = 2
    /\ TheRef.label = Some(" owns ")
    /\ \E e \in FinalEdges :
          /\ edges[e].label = "1 <-> 1..N\n owns"
          /\ edges[e].tooltip = "1 <-> 1..N     b(y, z) <-> a(y, z)      owns"

(* C9, as stated: when cardinalitySelf and cardinalityRef are both absent   *)
(* the final edge has an empty label and 'none' at both ends, whatever else *)
(* the foreign key holds.                                                   *)
C9_Original ==
    TheRef.cardinalitySelf = None /\ TheRef.cardinalityRef = None =>
        /\ pc # "error"
        /\ \A e \in FinalEdges :
              /\ edges[e].label = ""
              /\ edges[e].arrowtail = "none"
              /\ edges[e].arrowhead = "none"

(* C9, as amended: when cardinalitySelf and cardinalityRef are both absent  *)
(* the foreign key is drawn without error, its final edge has 'none' at     *)
(* both ends and its label holds no cardinality text: it is the reference's *)
(* label if it has one, else its name if it has one, in both cases without  *)
(* the white space at its two ends, else it is empty.                       *)
C9_NoCardinality ==
    TheRef.cardinalitySelf = None /\ TheRef.cardinalityRef = None =>
        /\ pc # "error"
        /\ pc = "done" /\ opt.display_columns => Cardinality(FinalEdges) = 1
        /\ \A e \in FinalEdges :
              /\ ShownWithoutEnds(edges[e].label, RelationName)
              /\ edges[e].arrowtail = "none"
              /\ edges[e].arrowhead = "none"

\* a label with white space at both ends, drawn with crowfoots enabled
C9_Witness ==
    /\ pc = "done"
    /\ TheRef.cardinalitySelf = None /\ TheRef.cardinalityRef = None
    /\ TheRef.label = Some(VT \o "owns" \o US)
    /\ opt.display_crowfoots
    /\ \E e \in FinalEdges :
          edges[e].label = "owns" /\ edges[e].arrowtail = "none"

(* C10: a document with two tables of the same (namespace, table name)      *)
(* identity makes get_graph fail: no graph is returned for it.              *)
C10_DuplicateIdentityRejected ==
    pc = "done" => ~DuplicateIdentity

\* a foreign key of the document references a table that no namespace holds
MissingReference ==
    \E o \in AllFks : RefIdentity(FkOf(o).reference) \notin Identities

(* C11: when a foreign key references a (namespace, table) pair that the    *)
(* document does not hold, get_graph fails before any rendering: at the     *)
(* moment of the failure the graph has no node and no edge.                 *)
C11_MissingReferenceRejectedEarly ==
    MissingReference /\ pc = "error" => nodes = <<>> /\ edges = <<>>

(* C13: in every graph that is returned each foreign key has as many tail   *)
(* fields as reference fields (a foreign key with an arity mismatch makes   *)
(* get_graph fail).                                                         *)
C13_ArityMismatchRejected ==
    pc = "done" =>
        \A o \in AllFks : Len(FkOf(o).fields) = Len(FkOf(o).reference.fields)

\* the nodes that _graph_add_table has made
TableNodes == {j \in 1..Len(nodes) : nodes[j].shape = "plaintext"}

(* C17: for a document with unique (namespace, name) identities, the        *)
(* returned graph has as many table nodes as tables were rendered.          *)
C17_OneNodePerTable ==
    pc = "done" /\ ~DuplicateIdentity => Cardinality(TableNodes) = Len(rendered)

-----------------------------------------------------------------------------
(* The annotation of a column, as C14 and C15 state it *)

\* the column rows that the returned graph shows for the columns named y
RowsOfY ==
    {r \in UNION {Range(nodes[j].rows) : j \in 1..Len(nodes)} :
        r.kind = "column" /\ r.name = "y"}

TheColumn == ColumnNamed(TableAt(<<1, 1>>), "y")

\* the combined annotation with the given nullability and default components
CombinedOf(null, default) ==
    CombinedText(<<null, JoinStr("; ", Uniques(TableAt(<<1, 1>>), TheColumn)),
                   default, DescriptionText(TheColumn)>>)

\* the default expression denotes a sequence
IsSequenceDefault(column) ==
    column.default_value # None /\ StartsWith(Lower(column.default_value[1]), nextval)

\* the default component that C14 states, with or without the DEFAULT= in
\* front of it
StatedDefaults(column) ==
    IF column.default_value = None THEN {""}
    ELSE IF IsSequenceDefault(column) THEN {"[sequence]", "DEFAULT=[sequence]"}
    ELSE {Cat(column.default_value[1]), "DEFAULT=" \o Cat(column.default_value[1])}

\* the nullability component of the annotation as the code makes it
CodeNull(column) == IF NullMarker(column) = <<>> THEN "" ELSE NullMarker(column)[1]

(* C14: the default component of a column's combined annotation is the      *)
(* fixed sequence marker when the default expression starts with nextval(,  *)
(* the literal default text otherwise, and nothing without a default.       *)
C14_SequenceMarker ==
    pc = "done" =>
        \A r \in RowsOfY :
            r.cells[3] \in {CombinedOf(CodeNull(TheColumn), d) : d \in StatedDefaults(TheColumn)}

\* the column is required: its constraints say so
IsRequired(column) ==
    column.constraints # None /\ column.constraints[1].required = Some(TRUE)

(* C15: the combined annotation of a column holds the struck-through NULL   *)
(* marker exactly when the column is not required, whatever the shape of    *)
(* its constraints (absent, without 'required', required false or true).    *)
C15_NullMarkerWhenNullable ==
    pc = "done" =>
        \A r \in RowsOfY :
            r.cells[3] = CombinedOf(IF IsRequired(TheColumn) THEN "" ELSE "<s>NULL</s>",
                                    DefaultText(TheColumn))

-----------------------------------------------------------------------------
(* The index row, as C16 states it *)

\* the definitions of the indexes of the table that are not marked unique,
\* in ascending order of the definition text
StatedIndexList ==
    LET table == TableAt(<<1, 1>>)
        listed == IF table.indexes = None THEN <<>>
                  ELSE SelectSeq(table.indexes[1], LAMBDA i : i.unique # Some(TRUE))
    IN  Sorted([k \in 1..Len(listed) |-> listed[k].definition])

(* C16: with display_indexes the last row of the table lists the indexes    *)
(* that are not marked unique, in ascending order of their definition       *)
(* texts; there is no such row when no index is listed or the option is     *)
(* disabled.                                                                *)
C16_IndexRowSorted ==
    pc = "done" =>
        \A j \in 1..Len(nodes) :
            LET rows == nodes[j].rows
                index_rows == {r \in 1..Len(rows) : rows[r].kind = "indexes"}
            IN  IF opt.display_indexes /\ StatedIndexList # <<>>
                THEN /\ index_rows = {Len(rows)}
                     /\ rows[Len(rows)].definitions =
                            [k \in 1..Len(StatedIndexList) |->
                                Cat(FontWrapped(opt, StatedIndexList[k]))]
                ELSE index_rows = {}

-----------------------------------------------------------------------------
(* C12: get_graph is a function of the document and the options: two      *)
(* calls that were given the same document and the same options have       *)
(* returned the same nodes and the same edges in the same order, whatever  *)
(* was called between them; and a call sees the default of every option    *)
(* that was not passed to it.                                              *)
C12_FunctionOfInputs ==
    /\ \A i, j \in 1..Len(returned) :
            returned[i].doc = returned[j].doc /\ returned[i].options = returned[j].options
            => /\ returned[i].nodes = returned[j].nodes
               /\ returned[i].edges = returned[j].edges
    /\ \A k \in DOMAIN options_defaults :
            k \notin DOMAIN options => opt[k] = options_defaults[k]

====
